---- MODULE Spec2Model ----
(***************************************************************************)
(* Hand-to-virtual-boundary demo: the geometric classifier of              *)
(* state_logic.py and the frame loop of main.py.                           *)
(*                                                                         *)
(* Representation of floats.  Every float the program computes here is     *)
(* either an integer pixel difference or the hypot of two of them.  A      *)
(* float v is represented by the integer v*|v| (its signed square): the    *)
(* map is strictly increasing, so ==, <, <= and min on the representation  *)
(* are exactly those on the floats, and a negative value stays negative.   *)
(* None is the empty tuple; a present float is the one-element tuple.      *)
(***************************************************************************)
EXTENDS Integers, Sequences, FiniteSets, TLC

VARIABLES
    pc,            \* position in main(), or in the caller of the pure functions
    cap,           \* the camera: "unopened", "open", "released"
    raising,       \* an exception is propagating out of the try block
    rect_x1, rect_y1, rect_x2, rect_y2,
    show_mask,     \* tracker.show_mask
    centroid,      \* None or <<cx, cy>>
    d,             \* None or <<float>>
    state,         \* "unset", 'SAFE' | 'WARNING' | 'DANGER', or "TypeError": the call raised
    hand_present,  \* the flag given to a direct call of classify_state
    moves          \* movement keys handled so far (bounds the exploration)

vars == <<pc, cap, raising, rect_x1, rect_y1, rect_x2, rect_y2, show_mask,
          centroid, d, state, hand_present, moves>>

----------------------------------------------------------------------------
(* Bounds of the exploration *)

\* movement key presses explored in one run of main()
MaxMoves == 36
\* the pure-function inputs: point coordinates -MaxCoord..MaxCoord
MaxCoord == 3
\* rectangle coordinates -MaxRect..MaxRect
MaxRect == 1
\* distances 0..sqrt(MaxDistSq) handed to classify_state
MaxDistSq == 14500

----------------------------------------------------------------------------
(* Program constants *)

FRAME_W == 640
FRAME_H == 480
step == 10
DangerThreshold == 60
WarningThreshold == 120

None == <<>>

Abs(n) == IF n < 0 THEN -n ELSE n
Min2(a, b) == IF a <= b THEN a ELSE b
Max2(a, b) == IF a >= b THEN a ELSE b

\* float(n) of an integer n
Float(n) == n * Abs(n)
\* math.hypot(a, b)
hypot(a, b) == a * a + b * b

----------------------------------------------------------------------------
(* state_logic.py *)

\* the inside test with strict comparisons
distance_strict_inside(pt, rect) ==
    LET cx == pt[1]
        cy == pt[2]
        rx1 == rect[1]
        ry1 == rect[2]
        rx2 == rect[3]
        ry2 == rect[4]
        corner(x, y) == hypot(cx - x, cy - y)
    IN  IF rx1 < cx /\ cx < rx2 /\ ry1 < cy /\ cy < ry2
        THEN Float(0)
        ELSE IF rx1 <= cx /\ cx <= rx2
        THEN (IF cy < ry1 THEN Float(ry1 - cy) ELSE Float(cy - ry2))
        ELSE IF ry1 <= cy /\ cy <= ry2
        THEN (IF cx < rx1 THEN Float(rx1 - cx) ELSE Float(cx - rx2))
        ELSE Min2(Min2(corner(rx1, ry1), corner(rx1, ry2)),
                  Min2(corner(rx2, ry1), corner(rx2, ry2)))

\* the nearest corner outside the rectangle, without the two edge branches
distance_corner_only(pt, rect) ==
    LET cx == pt[1]
        cy == pt[2]
        rx1 == rect[1]
        ry1 == rect[2]
        rx2 == rect[3]
        ry2 == rect[4]
        corner(x, y) == hypot(cx - x, cy - y)
    IN  IF rx1 <= cx /\ cx <= rx2 /\ ry1 <= cy /\ cy <= ry2
        THEN Float(0)
        ELSE Min2(Min2(corner(rx1, ry1), corner(rx1, ry2)),
                  Min2(corner(rx2, ry1), corner(rx2, ry2)))

\* the gap to the right of the rectangle measured from the left edge
distance_wrong_edge(pt, rect) ==
    LET cx == pt[1]
        cy == pt[2]
        rx1 == rect[1]
        ry1 == rect[2]
        rx2 == rect[3]
        ry2 == rect[4]
        corner(x, y) == hypot(cx - x, cy - y)
    IN  IF rx1 <= cx /\ cx <= rx2 /\ ry1 <= cy /\ cy <= ry2
        THEN Float(0)
        ELSE IF rx1 <= cx /\ cx <= rx2
        THEN (IF cy < ry1 THEN Float(ry1 - cy) ELSE Float(cy - ry2))
        ELSE IF ry1 <= cy /\ cy <= ry2
        THEN (IF cx < rx1 THEN Float(rx1 - cx) ELSE Float(cx - rx1))
        ELSE Min2(Min2(corner(rx1, ry1), corner(rx1, ry2)),
                  Min2(corner(rx2, ry1), corner(rx2, ry2)))

distance_point_to_rect(pt, rect) ==
    LET cx == pt[1]
        cy == pt[2]
        rx1 == rect[1]
        ry1 == rect[2]
        rx2 == rect[3]
        ry2 == rect[4]
        corner(x, y) == hypot(cx - x, cy - y)
    IN  IF rx1 <= cx /\ cx <= rx2 /\ ry1 <= cy /\ cy <= ry2
        THEN Float(0)
        ELSE IF rx1 <= cx /\ cx <= rx2
        THEN (IF cy < ry1 THEN Float(ry1 - cy) ELSE Float(cy - ry2))
        ELSE IF ry1 <= cy /\ cy <= ry2
        THEN (IF cx < rx1 THEN Float(rx1 - cx) ELSE Float(cx - rx2))
        ELSE Min2(Min2(corner(rx1, ry1), corner(rx1, ry2)),
                  Min2(corner(rx2, ry1), corner(rx2, ry2)))

\* DANGER for d < 60 only
classify_state_strict(distance, hp) ==
    IF ~hp THEN "SAFE"
    ELSE IF distance = None THEN "TypeError"
    ELSE LET dd == distance[1]
         IN  IF dd = Float(0) \/ dd < Float(DangerThreshold) THEN "DANGER"
             ELSE IF Float(DangerThreshold) <= dd /\ dd <= Float(WarningThreshold)
             THEN "WARNING"
             ELSE "SAFE"

\* the presence flag is not consulted
classify_state_no_presence(distance, hp) ==
    IF distance = None THEN "SAFE"
    ELSE LET dd == distance[1]
         IN  IF dd = Float(0) \/ dd <= Float(DangerThreshold) THEN "DANGER"
             ELSE IF Float(DangerThreshold) < dd /\ dd <= Float(WarningThreshold)
             THEN "WARNING"
             ELSE "SAFE"

\* float(distance) is taken before the presence check
classify_state_float_first(distance, hp) ==
    IF distance = None THEN "TypeError"
    ELSE IF ~hp THEN "SAFE"
    ELSE LET dd == distance[1]
         IN  IF dd = Float(0) \/ dd <= Float(DangerThreshold) THEN "DANGER"
             ELSE IF Float(DangerThreshold) < dd /\ dd <= Float(WarningThreshold)
             THEN "WARNING"
             ELSE "SAFE"

classify_state(distance, hp) ==
    IF ~hp THEN "SAFE"
    ELSE IF distance = None THEN "TypeError"      \* float(None) raises
    ELSE LET dd == distance[1]
         IN  IF dd = Float(0) \/ dd <= Float(DangerThreshold) THEN "DANGER"
             ELSE IF Float(DangerThreshold) < dd /\ dd <= Float(WarningThreshold)
             THEN "WARNING"
             ELSE IF dd > Float(WarningThreshold) THEN "SAFE"
             ELSE "SAFE"

----------------------------------------------------------------------------
(* main.py *)

\* the bounds taken in the other order
clamp_swapped(val, vmin, vmax) == Max2(vmax, Min2(vmin, val))

clamp(val, vmin, vmax) == Max2(vmin, Min2(vmax, val))

Keys == {"q", "m", "w", "a", "s", "d", "other"}
MoveKeys == {"w", "a", "s", "d"}

\* the right and bottom edges clamped from 0, like the left and top ones
MoveRect_same_floor(key, r) ==
    LET x1 == IF key = "a" THEN r[1] - step ELSE IF key = "d" THEN r[1] + step ELSE r[1]
        x2 == IF key = "a" THEN r[3] - step ELSE IF key = "d" THEN r[3] + step ELSE r[3]
        y1 == IF key = "w" THEN r[2] - step ELSE IF key = "s" THEN r[2] + step ELSE r[2]
        y2 == IF key = "w" THEN r[4] - step ELSE IF key = "s" THEN r[4] + step ELSE r[4]
    IN  <<clamp(x1, 0, FRAME_W - 1), clamp(y1, 0, FRAME_H - 1),
          clamp(x2, 0, FRAME_W), clamp(y2, 0, FRAME_H)>>

\* lines 139-159: the rectangle after a movement key
MoveRect(key, r) ==
    LET x1 == IF key = "a" THEN r[1] - step ELSE IF key = "d" THEN r[1] + step ELSE r[1]
        x2 == IF key = "a" THEN r[3] - step ELSE IF key = "d" THEN r[3] + step ELSE r[3]
        y1 == IF key = "w" THEN r[2] - step ELSE IF key = "s" THEN r[2] + step ELSE r[2]
        y2 == IF key = "w" THEN r[4] - step ELSE IF key = "s" THEN r[4] + step ELSE r[4]
    IN  <<clamp(x1, 0, FRAME_W - 1), clamp(y1, 0, FRAME_H - 1),
          clamp(x2, 1, FRAME_W), clamp(y2, 1, FRAME_H)>>

rect == <<rect_x1, rect_y1, rect_x2, rect_y2>>

\* what tracker.process_frame may report as the centroid of a frame
Centroids == {<<320, 240>>, <<600, 450>>}

Init ==
    /\ pc = "open"
    /\ cap = "unopened"
    /\ raising = FALSE
    /\ rect_x1 = 220 /\ rect_y1 = 140
    /\ rect_x2 = 420 /\ rect_y2 = 340
    /\ show_mask = FALSE
    /\ centroid = None
    /\ d = None
    /\ state = "unset"
    /\ hand_present = FALSE
    /\ moves = 0

\* lines 38-41
OpenCamera ==
    /\ pc = "open"
    /\ \E opened \in BOOLEAN :
         IF opened
         THEN cap' = "open" /\ pc' = "configure"
         ELSE cap' = cap /\ pc' = "returned"
    /\ UNCHANGED <<raising, rect_x1, rect_y1, rect_x2, rect_y2, show_mask,
                   centroid, d, state, hand_present, moves>>

\* lines 44-45
ConfigureCamera ==
    /\ pc = "configure"
    /\ pc' = "construct"
    /\ UNCHANGED <<cap, raising, rect_x1, rect_y1, rect_x2, rect_y2, show_mask,
                   centroid, d, state, hand_present, moves>>

\* lines 48-58
ConstructTracker ==
    /\ pc = "construct"
    /\ show_mask' = FALSE
    /\ pc' = "read"
    /\ UNCHANGED <<cap, raising, rect_x1, rect_y1, rect_x2, rect_y2,
                   centroid, d, state, hand_present, moves>>

\* an error raised by a statement between the open and the try: it leaves main()
RaiseInSetup ==
    /\ pc \in {"configure", "construct"}
    /\ pc' = "raised"
    /\ UNCHANGED <<cap, raising, rect_x1, rect_y1, rect_x2, rect_y2, show_mask,
                   centroid, d, state, hand_present, moves>>

\* lines 62-79: read a frame, track, measure, classify
ReadFrame ==
    /\ pc = "read"
    /\ \E ret \in BOOLEAN :
         IF ~ret
         THEN /\ pc' = "finally"
              /\ UNCHANGED <<centroid, d, state>>
         ELSE \E c \in Centroids \cup {None} :
              /\ centroid' = c
              /\ IF c = None
                 THEN d' = None /\ state' = "SAFE"
                 ELSE /\ d' = <<distance_point_to_rect(c, rect)>>
                      /\ state' = classify_state(d', TRUE)
              /\ pc' = "draw"
    /\ UNCHANGED <<cap, raising, rect_x1, rect_y1, rect_x2, rect_y2, show_mask,
                   hand_present, moves>>

\* lines 81-159: draw, show, wait for a key and handle it
HandleKey(key) ==
    /\ pc = "draw"
    /\ IF key = "q"
       THEN /\ pc' = "finally"
            /\ UNCHANGED <<rect_x1, rect_y1, rect_x2, rect_y2, show_mask, moves>>
       ELSE IF key = "m"
       THEN /\ show_mask' = ~show_mask
            /\ pc' = "read"
            /\ UNCHANGED <<rect_x1, rect_y1, rect_x2, rect_y2, moves>>
       ELSE IF key \in MoveKeys
       THEN /\ moves < MaxMoves
            /\ LET r == MoveRect(key, rect)
               IN  /\ rect_x1' = r[1] /\ rect_y1' = r[2]
                   /\ rect_x2' = r[3] /\ rect_y2' = r[4]
            /\ moves' = moves + 1
            /\ pc' = "read"
            /\ UNCHANGED show_mask
       ELSE /\ pc' = "read"
            /\ UNCHANGED <<rect_x1, rect_y1, rect_x2, rect_y2, show_mask, moves>>
    /\ UNCHANGED <<cap, raising, centroid, d, state, hand_present>>

KeyPress == \E key \in Keys : HandleKey(key)

\* an error raised by a statement of the try block
RaiseInLoop ==
    /\ pc \in {"read", "draw"}
    /\ raising' = TRUE
    /\ pc' = "finally"
    /\ UNCHANGED <<cap, rect_x1, rect_y1, rect_x2, rect_y2, show_mask,
                   centroid, d, state, hand_present, moves>>

\* lines 161-165
Finally ==
    /\ pc = "finally"
    /\ cap' = "released"
    /\ pc' = IF raising THEN "raised" ELSE "returned"
    /\ UNCHANGED <<raising, rect_x1, rect_y1, rect_x2, rect_y2, show_mask,
                   centroid, d, state, hand_present, moves>>

Next ==
    \/ OpenCamera
    \/ ConfigureCamera
    \/ ConstructTracker
    \/ RaiseInSetup
    \/ ReadFrame
    \/ KeyPress
    \/ RaiseInLoop
    \/ Finally

Spec == Init /\ [][Next]_vars

----------------------------------------------------------------------------
(* The pure functions of state_logic.py applied to bounded inputs *)

PointCoords == (-MaxCoord .. MaxCoord) \cup {-30, 50, 110, 150}
RectCoords == (-MaxRect .. MaxRect) \cup {0, 100}
Points == PointCoords \X PointCoords
Rects == {r \in RectCoords \X RectCoords \X RectCoords \X RectCoords :
            r[3] > r[1] /\ r[4] > r[2]}
\* the float sqrt(k) for every k in 0..MaxDistSq, and the absent distance
DistanceInputs == {<<k>> : k \in 0 .. MaxDistSq} \cup {None}

InitPure ==
    /\ pc = "call"
    /\ cap = "unopened"
    /\ raising = FALSE
    /\ show_mask = FALSE
    /\ state = "unset"
    /\ hand_present = FALSE
    /\ moves = 0
    /\ \/ /\ centroid \in Points
          /\ \E r \in Rects :
               /\ rect_x1 = r[1] /\ rect_y1 = r[2]
               /\ rect_x2 = r[3] /\ rect_y2 = r[4]
          /\ d = None
       \/ /\ centroid = None
          /\ rect_x1 = 220 /\ rect_y1 = 140
          /\ rect_x2 = 420 /\ rect_y2 = 340
          /\ d \in DistanceInputs

\* d = distance_point_to_rect(centroid, rect)
CallDistance ==
    /\ pc = "call"
    /\ centroid # None
    /\ d' = <<distance_point_to_rect(centroid, rect)>>
    /\ pc' = "measured"
    /\ UNCHANGED <<cap, raising, rect_x1, rect_y1, rect_x2, rect_y2, show_mask,
                   centroid, state, hand_present, moves>>

\* state = classify_state(d, hp)
CallClassify ==
    /\ pc \in {"call", "measured"}
    /\ \E hp \in BOOLEAN :
         /\ state' = classify_state(d, hp)
         /\ hand_present' = hp
    /\ pc' = "classified"
    /\ UNCHANGED <<cap, raising, rect_x1, rect_y1, rect_x2, rect_y2, show_mask,
                   centroid, d, moves>>

NextPure ==
    \/ CallDistance
    \/ CallClassify

SpecPure == InitPure /\ [][NextPure]_vars

\* main() and the direct calls of the two functions, side by side
InitAll == Init \/ InitPure
NextAll == Next \/ NextPure
SpecAll == InitAll /\ [][NextAll]_vars

----------------------------------------------------------------------------
(* Properties *)

Classified == {"SAFE", "WARNING", "DANGER"}
Inside == rect_x1 <= centroid[1] /\ centroid[1] <= rect_x2
          /\ rect_y1 <= centroid[2] /\ centroid[2] <= rect_y2

\* C1: with the hand present, a distance d >= 0 is classified DANGER when
\* d <= 60 (d = 0 included), WARNING when 60 < d <= 120 and SAFE when d > 120;
\* 60 is DANGER, the next value above it WARNING, 120 is WARNING, the next
\* value above it SAFE.  (d[1] is the square of the distance.)
C1_Thresholds ==
    (pc = "classified" /\ hand_present /\ d # None) =>
        LET sq == d[1]
        IN  /\ (sq <= 60 * 60) => state = "DANGER"
            /\ (60 * 60 < sq /\ sq <= 120 * 120) => state = "WARNING"
            /\ (sq > 120 * 120) => state = "SAFE"
            /\ (sq = 0) => state = "DANGER"
            /\ (sq = 60 * 60 + 1) => state = "WARNING"
            /\ (sq = 120 * 120 + 1) => state = "SAFE"

C1_Witness ==
    /\ pc = "classified" /\ hand_present
    /\ d = <<60 * 60 + 1>> /\ state = "WARNING"

\* C2: for a rectangle with x2 > x1 and y2 > y1 the squared result of
\* distance_point_to_rect is dx*dx + dy*dy with dx = max(x1 - Px, 0, Px - x2)
\* and dy = max(y1 - Py, 0, Py - y2); for R = (0,0,100,100): (50,-30) -> 30,
\* (150,50) -> 50, (110,110) -> squared distance 200.
C2_MinDistance ==
    (pc = "measured") =>
        LET dx == Max2(Max2(rect_x1 - centroid[1], 0), centroid[1] - rect_x2)
            dy == Max2(Max2(rect_y1 - centroid[2], 0), centroid[2] - rect_y2)
        IN  /\ d[1] = dx * dx + dy * dy
            /\ (rect = <<0, 0, 100, 100>> /\ centroid = <<50, -30>>) => d[1] = 30 * 30
            /\ (rect = <<0, 0, 100, 100>> /\ centroid = <<150, 50>>) => d[1] = 50 * 50
            /\ (rect = <<0, 0, 100, 100>> /\ centroid = <<110, 110>>) => d[1] = 200

C2_Witness ==
    /\ pc = "measured"
    /\ rect = <<0, 0, 100, 100>> /\ centroid = <<150, 50>>
    /\ d = <<50 * 50>>

\* C3: for a rectangle with x2 > x1 and y2 > y1 the distance is 0 exactly when
\* the point is inside or on the boundary, strictly positive for every other
\* point, and never negative.
C3_ZeroIffInside ==
    (pc = "measured") =>
        /\ d[1] >= 0
        /\ (d[1] = 0) <=> Inside
        /\ ~Inside => d[1] > 0

C3_Witness ==
    /\ pc = "measured"
    /\ centroid = <<rect_x2, rect_y1>>
    /\ d = <<0>>

\* C4: without a hand the state is SAFE whatever the distance: classify_state
\* with hand_present = False returns SAFE for every distance, the absent one
\* included, and a frame of the main loop whose centroid is None has state
\* SAFE and no distance, wherever the rectangle is.
C4_AbsentIsSafe ==
    /\ (pc = "classified" /\ ~hand_present) => state = "SAFE"
    /\ (pc = "draw" /\ centroid = None) => (state = "SAFE" /\ d = None)

C4_Witness ==
    /\ pc = "draw" /\ centroid = None
    /\ rect_x1 <= 320 /\ 320 <= rect_x2 /\ rect_y1 <= 240 /\ 240 <= rect_y2
    /\ moves > 0
    /\ state = "SAFE" /\ d = None

\* C5 as stated: classify_state returns one of SAFE, WARNING, DANGER for
\* every distance that is a non-negative number or absent, with either value
\* of the presence flag.
C5_TotalAsStated ==
    (pc = "classified") => state \in Classified

\* C5 amended: classify_state returns one of SAFE, WARNING, DANGER for every
\* non-negative distance with either value of the presence flag, and for the
\* absent distance when the hand is not present.
C5_Total ==
    (pc = "classified" /\ (d # None \/ ~hand_present)) => state \in Classified

C5_Witness ==
    /\ pc = "classified" /\ d = None /\ ~hand_present
    /\ state = "SAFE"

\* C6: after any sequence of key presses the rectangle handed to
\* distance_point_to_rect on the next frame has 0 <= x1 < x2 <= 640 and
\* 0 <= y1 < y2 <= 480.
C6_RectInFrame ==
    (pc \in {"read", "draw"}) =>
        /\ 0 <= rect_x1 /\ rect_x1 < rect_x2 /\ rect_x2 <= 640
        /\ 0 <= rect_y1 /\ rect_y1 < rect_y2 /\ rect_y2 <= 480

C6_Witness ==
    /\ pc = "draw" /\ centroid # None
    /\ rect_y1 = 0 /\ rect_y2 = 1

\* C7: after any sequence of w/a/s/d key presses the width and the height of
\* the rectangle are the initial 200 and 200.
C7_SizeKept ==
    /\ rect_x2 - rect_x1 = 200
    /\ rect_y2 - rect_y1 = 200

\* C8: once the camera has been opened, main() ends only after cap.release().
C8_ReleasedOnExit ==
    (pc \in {"returned", "raised"} /\ cap # "unopened") => cap = "released"

\* C9: the distance is unchanged when the point and the rectangle are both
\* reflected across the vertical axis, and when across the horizontal axis.
C9_Reflection ==
    (pc = "measured") =>
        /\ d[1] = distance_point_to_rect(<<-centroid[1], centroid[2]>>,
                                         <<-rect_x2, rect_y1, -rect_x1, rect_y2>>)
        /\ d[1] = distance_point_to_rect(<<centroid[1], -centroid[2]>>,
                                         <<rect_x1, -rect_y2, rect_x2, -rect_y1>>)

C9_Witness ==
    /\ pc = "measured"
    /\ centroid[1] > rect_x2 /\ centroid[2] < rect_y1
    /\ d[1] > 0

\* C10: a key changes only what it is for: w and s leave x1 and x2, a and d
\* leave y1 and y2, m flips show_mask and leaves the rectangle, and any other
\* key but q leaves the rectangle and show_mask.
C10_KeyEffects ==
    [][\A key \in Keys : HandleKey(key) =>
          /\ (key \in {"w", "s"}) => (rect_x1' = rect_x1 /\ rect_x2' = rect_x2)
          /\ (key \in {"a", "d"}) => (rect_y1' = rect_y1 /\ rect_y2' = rect_y2)
          /\ (key = "m") => (show_mask' = ~show_mask /\ rect' = rect)
          /\ (key = "other") => (show_mask' = show_mask /\ rect' = rect)]_vars

C10_Witness ==
    /\ pc = "read"
    /\ show_mask
    /\ rect_x2 = 640 /\ rect_y1 = 0

====
